---------------------------- MODULE Spec2Model ----------------------------
(***************************************************************************)
(* Model of backend/youtube_downloader.py: the YouTubeDownloader class.    *)
(*                                                                         *)
(* Strings are sequences of one-character strings, so that the regular     *)
(* expression of is_valid_youtube_url and the re.sub of download_audio are *)
(* computed character by character.  The output directory is a function    *)
(* from the stem of each *.mp3 file to its creation time and tags.  The    *)
(* external engine (yt_dlp), the tag library (mutagen) and the platform's  *)
(* rename are the environment: their outcomes are inputs of the handler.   *)
(***************************************************************************)
EXTENDS Integers, Sequences, FiniteSets, TLC

VARIABLES
    platform,            \* "posix" or "nt": the os the process runs on
    dir,                 \* self.output_dir: stem of each *.mp3 -> [ctime, tags]
    outtmpl,             \* self.ydl_opts['outtmpl'], as the stem of the template
    current_video_info,  \* self.current_video_info: <<>> (no attribute) or <<info>>
    calls,               \* download_audio calls made so far on this instance
    req,                 \* arguments of the last download_audio call
    outcome,             \* "idle", "returned" or "raised": how the last call ended
    result,              \* what the last call returned: None or a path
    obs,                 \* what the last call did, stage by stage
    parts,               \* the pieces a URL under validation was built from
    valid                \* "unchecked", or the answer of is_valid_youtube_url

vars == <<platform, dir, outtmpl, current_video_info, calls, req, outcome,
          result, obs, parts, valid>>

---------------------------------------------------------------------------
(* Bounds of the model.                                                    *)

\* download_audio calls on one instance
MaxCalls == 2
\* longest identifier part of a URL under validation
MaxIdLen == 12
\* longest custom file name drawn from the full alphabet
MaxNameLen == 2

---------------------------------------------------------------------------
(* Text.                                                                   *)

None == <<"None">>

Https == <<"h", "t", "t", "p", "s", ":", "/", "/">>
Http == <<"h", "t", "t", "p", ":", "/", "/">>
Ftp == <<"f", "t", "p", ":", "/", "/">>
Www == <<"w", "w", "w", ".">>
Mobile == <<"m", ".">>
Youtube == <<"y", "o", "u", "t", "u", "b", "e">>
Youtu == <<"y", "o", "u", "t", "u">>
YoutubeNocookie == <<"y", "o", "u", "t", "u", "b", "e", "-", "n", "o", "c", "o", "o", "k", "i", "e">>
Vimeo == <<"v", "i", "m", "e", "o">>
Com == <<"c", "o", "m">>
Be == <<"b", "e">>
Org == <<"o", "r", "g">>
WatchV == <<"w", "a", "t", "c", "h", "?", "v", "=">>
Embed == <<"e", "m", "b", "e", "d", "/">>
VSlash == <<"v", "/">>
QueryV == <<"?", "v", "=">>
ListV == <<"x", "?", "v", "=">>
IdChars == <<"d", "Q", "w", "4", "w", "9", "W", "g", "X", "c", "Q", "a", "b", "c", "d", "e", "f">>
TimeParam == <<"&", "t", "=", "1", "s">>
NotAUrl == <<"n", "o", "t", " ", "a", " ", "u", "r", "l">>

\* the URL of test_download.py
TestUrl == Https \o Www \o Youtube \o <<".">> \o Com \o <<"/">> \o WatchV \o SubSeq(IdChars, 1, 11)

---------------------------------------------------------------------------
(* is_valid_youtube_url: re.match of                                       *)
(*   (https?://)?(www\.)?(youtube|youtu|youtube-nocookie)\.(com|be)/       *)
(*   (watch\?v=|embed/|v/|.+\?v=)?([^&=%\?]{11})                           *)
(* A position is the index of the next character to read; each piece of    *)
(* the pattern maps a position to the set of positions the match can be at *)
(* after it, so every way of backtracking is followed.                     *)

\* length of the identifier group, {11}
IdLen == 11

\* the characters the identifier class [^&=%\?] excludes
IdExcluded == {"&", "=", "%", "?"}

\* a literal, read at position p
Lit(s, p, w) ==
    IF p + Len(w) - 1 <= Len(s) /\ SubSeq(s, p, p + Len(w) - 1) = w
    THEN {p + Len(w)}
    ELSE {}

\* an alternation of literals: (a|b|c)
Alt(s, p, W) == UNION { Lit(s, p, w) : w \in W }

\* .+ : one or more characters, none a line break
DotPlus(s, p) ==
    { q \in (p + 1)..(Len(s) + 1) : \A i \in p..(q - 1) : s[i] # "\n" }

\* [^&=%\?]{11}
IdGroup(s, p) ==
    IF p + IdLen - 1 <= Len(s) /\ \A i \in p..(p + IdLen - 1) : s[i] \notin IdExcluded
    THEN {p + IdLen}
    ELSE {}

\* Each step takes the union over the positions reached so far; an optional
\* group (...)? keeps the position it starts from as well.
Match(s) ==
    LET p1 == UNION { {p} \cup UNION { Lit(s, q, <<":", "/", "/">>) :
                                       q \in Alt(s, p, {<<"h", "t", "t", "p">>,
                                                        <<"h", "t", "t", "p", "s">>}) } :
                      p \in {1} }
        p2 == UNION { {p} \cup Lit(s, p, Www) : p \in p1 }
        p3 == UNION { Alt(s, p, {Youtube, Youtu, YoutubeNocookie}) : p \in p2 }
        p4 == UNION { Lit(s, p, <<".">>) : p \in p3 }
        p5 == UNION { Alt(s, p, {Com, Be}) : p \in p4 }
        p6 == UNION { Lit(s, p, <<"/">>) : p \in p5 }
        p7 == UNION { {p} \cup Alt(s, p, {WatchV, Embed, VSlash})
                          \cup UNION { Lit(s, q, QueryV) : q \in DotPlus(s, p) } :
                      p \in p6 }
    IN  UNION { IdGroup(s, p) : p \in p7 }

is_valid_youtube_url(url) == Match(url) # {}

---------------------------------------------------------------------------
(* The file-name sanitizer of download_audio:                              *)
(*   re.sub(r'[<>:"/\\|?*]', '', output_filename)                          *)

IllegalChars == {"<", ">", ":", "\"", "/", "\\", "|", "?", "*"}

\* the sanitizer as it would be with '*' left out of the character class
safe_filename_no_star(name) ==
    SelectSeq(name, LAMBDA c : c \notin (IllegalChars \ {"*"}))

safe_filename(name) == SelectSeq(name, LAMBDA c : c \notin IllegalChars)

\* `if output_filename:` is false for None and for the empty string
Truthy(name) == name # None /\ name # <<>>

---------------------------------------------------------------------------
(* The metadata fetch: get_video_info.                                     *)

Unknown == <<"U", "n", "k", "n", "o", "w", "n">>
Rick == <<"R", "i", "c", "k">>
Live == <<"L", "i", "v", "e">>
Astley == <<"A", "s", "t", "l", "e", "y">>

\* dict.get(key, default): the default only when the key is missing
Get(d, key, default) == IF key \in DOMAIN d THEN d[key] ELSE default

\* What extract_info can report.  An integer field is <<n>>, or <<>> when the
\* engine reports the key with the value None.
Reports ==
    { [title |-> Rick, uploader |-> Astley, duration |-> <<212>>, view_count |-> <<1000>>],
      [title |-> Live],
      [uploader |-> Astley, view_count |-> <<1000>>],
      [title |-> Live, uploader |-> Astley, duration |-> <<>>, view_count |-> <<1000>>],
      [title |-> Rick, uploader |-> Astley, duration |-> <<212>>, view_count |-> <<>>] }

\* <<>>: extract_info raised; <<r>>: it returned the dict r
Fetches == {<<>>} \cup { <<r>> : r \in Reports }

get_video_info(fetch) ==
    IF fetch = <<>>
    THEN <<>>
    ELSE << [title      |-> Get(fetch[1], "title", Unknown),
             uploader   |-> Get(fetch[1], "uploader", Unknown),
             duration   |-> Get(fetch[1], "duration", <<0>>),
             view_count |-> Get(fetch[1], "view_count", <<0>>)] >>

\* The summary printed after the fetch: info['duration']//60, info['duration']%60
\* and format(info['view_count'], ',') raise TypeError on None.
SummaryRaises(info) == info.duration = <<>> \/ info.view_count = <<>>

---------------------------------------------------------------------------
(* The stages of download_audio.                                           *)

\* the stem of the template set by __init__: '%(title)s'
TitleTmpl == <<"%", "(", "t", "i", "t", "l", "e", ")", "s">>

\* yt_dlp's placeholder for a field the video does not have
NA == <<"N", "A">>

\* str(self.output_dir / f"{stem}.mp3"), output_dir being "downloads"
Path(stem) == <<"downloads/">> \o stem \o <<".mp3">>

NoTags == [TIT2 |-> None, TPE1 |-> None, TALB |-> None]

\* the URLs download_audio is called with, and the answer of
\* is_valid_youtube_url for each, computed once
Urls == {TestUrl, NotAUrl}

UrlCheck == [u \in Urls |-> is_valid_youtube_url(u)]

\* the guard as it would be were the URL never rejected
PassesUrlCheckAlways(url) == TRUE

\* the guard `if not self.is_valid_youtube_url(url): return None`

PassesUrlCheck(url) == UrlCheck[url]

\* the store as it would be were it made only when nothing is stored yet
StoreInfoOnce(stored, info) == IF stored = <<>> THEN <<info>> ELSE stored

\* self.current_video_info = info

StoreInfo(stored, info) == <<info>>

\* `if output_filename:` rewrites self.ydl_opts['outtmpl']; nothing resets it
TemplateFor(tmpl, output_filename) ==
    IF Truthy(output_filename) THEN safe_filename(output_filename) ELSE tmpl

\* The file the engine writes for a template: the title (or its placeholder)
\* for '%(title)s', the template's own stem otherwise.
EngineStem(tmpl, report) ==
    IF tmpl = TitleTmpl THEN Get(report, "title", NA) ELSE tmpl

\* ydl.download([url]) with 'ignoreerrors': True.  "file": one new .mp3 is
\* written; "nofile": the engine reports its error and returns; "raise": it
\* raises.
EngineOutcomes == {"file", "nofile", "raise"}

EngineWrites(d, tmpl, report, eng, now) ==
    IF eng = "file"
    THEN [n \in DOMAIN d \cup {EngineStem(tmpl, report)} |->
            IF n = EngineStem(tmpl, report) THEN [ctime |-> now, tags |-> NoTags] ELSE d[n]]
    ELSE d

\* max(downloaded_files, key=os.path.getctime)
LatestFile(d) == CHOOSE n \in DOMAIN d : \A m \in DOMAIN d : d[m].ctime <= d[n].ctime

\* the rename target as it would be from the name as given
new_path_raw(output_filename) == output_filename

\* new_path = self.output_dir / f"{safe_filename}.mp3"

new_path(output_filename) == safe_filename(output_filename)

\* Path.rename: on Windows FileExistsError when the target exists; on Unix
\* the target is replaced.  Renaming a file to its own name does nothing.
RenameRaises(d, src, dst, plat) == plat = "nt" /\ dst # src /\ dst \in DOMAIN d

\* os.path.getctime is the inode change time on Unix, which a rename
\* updates, and the creation time on Windows, which it keeps.
Rename(d, src, dst, plat, now) ==
    IF dst = src
    THEN d
    ELSE [n \in (DOMAIN d \ {src}) \cup {dst} |->
            IF n = dst
            THEN [d[src] EXCEPT !.ctime = IF plat = "posix" THEN now ELSE @]
            ELSE d[n]]

\* add_metadata: title, artist and album frames, then save; any exception is
\* caught and the file is left as it was.
add_metadata(d, stem, video_info, tagOk) ==
    IF ~tagOk
    THEN d
    ELSE [d EXCEPT ![stem].tags =
            [TIT2 |-> IF video_info.title # <<>> THEN video_info.title ELSE @.TIT2,
             TPE1 |-> IF video_info.uploader # <<>> THEN video_info.uploader ELSE @.TPE1,
             TALB |-> IF video_info.uploader # <<>>
                      THEN <<"YouTube - ">> \o video_info.uploader ELSE @.TALB]]

\* the return as it would be were a tag failure treated as a failed download
ReturnAfterTagStrict(path, tagOk) == IF tagOk THEN path ELSE None

\* return str(latest_file), reached whether or not add_metadata failed

ReturnAfterTag(path, tagOk) == path

---------------------------------------------------------------------------
(* download_audio, from its arguments and the environment's outcomes to    *)
(* what it returns and what it leaves behind.                              *)

\* what a call that has done nothing yet has observed
IdleObs ==
    [before           |-> <<>>,    \* self.current_video_info when the call began
     fetched          |-> FALSE,   \* get_video_info was called
     info             |-> <<>>,    \* what it returned
     engine           |-> "skipped", \* how ydl.download ended
     tmpl             |-> None,    \* the outtmpl the engine was given
     produced         |-> None,    \* the stem of the file the engine wrote
     scanned          |-> FALSE,   \* the directory was globbed
     downloaded_files |-> {},      \* what the glob found
     latest_file      |-> None,    \* the newest of them
     renameTo         |-> None,    \* the target rename was called with
     renameRaised     |-> FALSE,
     tagged           |-> FALSE,   \* add_metadata was called
     tagInfo          |-> <<>>,    \* the video_info it was given
     tagOk            |-> FALSE]   \* it saved the tags

Ret(o, r, d, t, c, ob) ==
    [outcome |-> o, result |-> r, dir |-> d, outtmpl |-> t, cvi |-> c, obs |-> ob]

\* lines 148-153: tag the file and return its path
TagAndReturn(d, stem, tmpl, cvi, ob, tagOk) ==
    IF cvi # <<>>
    THEN Ret("returned", ReturnAfterTag(Path(stem), tagOk),
             add_metadata(d, stem, cvi[1], tagOk), tmpl, cvi,
             [ob EXCEPT !.tagged = TRUE, !.tagInfo = cvi, !.tagOk = tagOk])
    ELSE Ret("returned", Path(stem), d, tmpl, cvi, ob)

\* lines 131-146: find the newest .mp3 and rename it when a name was given
LocateAndRename(d, output_filename, tmpl, cvi, ob, tagOk, now) ==
    LET ob3 == [ob EXCEPT !.scanned = TRUE, !.downloaded_files = DOMAIN d,
                          !.latest_file = IF DOMAIN d = {} THEN None ELSE LatestFile(d)]
    IN  IF DOMAIN d = {}
        THEN Ret("returned", None, d, tmpl, cvi, ob3)
        ELSE IF Truthy(output_filename)
        THEN LET src == LatestFile(d)
                 dst == new_path(output_filename)
                 ob4 == [ob3 EXCEPT !.renameTo = dst]
             IN  IF RenameRaises(d, src, dst, platform)
                 THEN Ret("returned", None, d, tmpl, cvi,
                          [ob4 EXCEPT !.renameRaised = TRUE])
                 ELSE TagAndReturn(Rename(d, src, dst, platform, now), dst,
                                   tmpl, cvi, ob4, tagOk)
        ELSE TagAndReturn(d, LatestFile(d), tmpl, cvi, ob3, tagOk)

\* lines 120-129: set the template and run the engine
Download(output_filename, report, cvi, ob, eng, tagOk, now) ==
    LET tmpl == TemplateFor(outtmpl, output_filename)
        ob2  == [ob EXCEPT !.engine = eng, !.tmpl = tmpl,
                           !.produced = IF eng = "file"
                                        THEN EngineStem(tmpl, report) ELSE None]
    IN  IF eng = "raise"
        THEN Ret("returned", None, dir, tmpl, cvi, ob2)
        ELSE LocateAndRename(EngineWrites(dir, tmpl, report, eng, now),
                             output_filename, tmpl, cvi, ob2, tagOk, now)

\* lines 102-118
Run(url, output_filename, fetch, eng, tagOk, now) ==
    IF ~PassesUrlCheck(url)
    THEN Ret("returned", None, dir, outtmpl, current_video_info,
             [IdleObs EXCEPT !.before = current_video_info])
    ELSE LET info == get_video_info(fetch)
             ob1  == [IdleObs EXCEPT !.before = current_video_info,
                                     !.fetched = TRUE, !.info = info]
         IN  IF info = <<>>
             THEN Ret("returned", None, dir, outtmpl, current_video_info, ob1)
             ELSE IF SummaryRaises(info[1])
             THEN Ret("raised", None, dir, outtmpl,
                      StoreInfo(current_video_info, info[1]), ob1)
             ELSE Download(output_filename, fetch[1],
                           StoreInfo(current_video_info, info[1]), ob1,
                           eng, tagOk, now)

---------------------------------------------------------------------------
(* The state machine: calls of download_audio on one instance.             *)

MySong == <<"M", "y", "S", "o", "n", "g">>

\* custom names a caller gives: none, empty, and names with illegal characters
Names == {None, <<>>, <<"M", "y", ":", "S", "o", "n", "g">>, <<"a", "*">>}

NoParts == [scheme |-> <<>>, sub |-> <<>>, host |-> <<>>, tld |-> <<>>,
            prefix |-> <<>>, id |-> <<>>, rest |-> <<>>]

\* A fresh instance.  The directory is created with exist_ok=True: it is
\* empty, or holds a file of an earlier run of the program.
Init ==
    /\ platform \in {"posix", "nt"}
    /\ dir \in { <<>>, [n \in {MySong} |-> [ctime |-> 0, tags |-> NoTags]] }
    /\ outtmpl = TitleTmpl
    /\ current_video_info = <<>>
    /\ calls = 0
    /\ req = [url |-> <<>>, output_filename |-> None]
    /\ outcome = "idle"
    /\ result = None
    /\ obs = IdleObs
    /\ parts = NoParts
    /\ valid = "unchecked"

download_audio(url, output_filename, fetch, eng, tagOk) ==
    /\ calls < MaxCalls
    /\ \E r \in {Run(url, output_filename, fetch, eng, tagOk, calls + 1)} :
           /\ outcome' = r.outcome
           /\ result' = r.result
           /\ dir' = r.dir
           /\ outtmpl' = r.outtmpl
           /\ current_video_info' = r.cvi
           /\ obs' = r.obs
    /\ calls' = calls + 1
    /\ req' = [url |-> url, output_filename |-> output_filename]
    /\ UNCHANGED <<platform, parts, valid>>

Next ==
    \E url \in Urls, output_filename \in Names, fetch \in Fetches,
       eng \in EngineOutcomes, tagOk \in BOOLEAN :
        download_audio(url, output_filename, fetch, eng, tagOk)

Spec == Init /\ [][Next]_vars

---------------------------------------------------------------------------
(* is_valid_youtube_url on its own: every URL built from these pieces.     *)

Schemes == {<<>>, Http, Https, Ftp}
Subs == {<<>>, Www, Mobile}
Hosts == {Youtube, Youtu, YoutubeNocookie, Vimeo}
Tlds == {Com, Be, Org}
Prefixes == {<<>>, WatchV, Embed, VSlash, ListV}
Ids == { SubSeq(IdChars, 1, n) : n \in 0..MaxIdLen }
Rests == {<<>>, TimeParam}

BuildUrl(p) ==
    p.scheme \o p.sub \o p.host \o <<".">> \o p.tld \o <<"/">> \o p.prefix \o p.id \o p.rest

InitValid ==
    /\ parts \in [scheme : Schemes, sub : Subs, host : Hosts, tld : Tlds,
                  prefix : Prefixes, id : Ids, rest : Rests]
    /\ valid = "unchecked"
    /\ platform = "posix"
    /\ dir = <<>>
    /\ outtmpl = TitleTmpl
    /\ current_video_info = <<>>
    /\ calls = 0
    /\ req = [url |-> <<>>, output_filename |-> None]
    /\ outcome = "idle"
    /\ result = None
    /\ obs = IdleObs

CheckUrl ==
    /\ valid = "unchecked"
    /\ valid' = IF is_valid_youtube_url(BuildUrl(parts)) THEN "valid" ELSE "invalid"
    /\ UNCHANGED <<platform, dir, outtmpl, current_video_info, calls, req,
                   outcome, result, obs, parts>>

SpecValid == InitValid /\ [][CheckUrl]_vars

---------------------------------------------------------------------------
(* The sanitizer inside one call: every custom name over the nine illegal  *)
(* characters and two legal ones, on a fresh instance.                     *)

NameAlphabet == IllegalChars \cup {"a", "."}

FullNames == UNION { [1..n -> NameAlphabet] : n \in 0..MaxNameLen }

FullReport == [title |-> Rick, uploader |-> Astley, duration |-> <<212>>, view_count |-> <<1000>>]

NextSanitize ==
    /\ calls = 0
    /\ \E output_filename \in FullNames, eng \in EngineOutcomes, tagOk \in BOOLEAN :
          download_audio(TestUrl, output_filename, <<FullReport>>, eng, tagOk)

SpecSanitize == Init /\ [][NextSanitize]_vars

---------------------------------------------------------------------------
(* Properties.                                                             *)

\* r is s with exactly the illegal characters removed and the others kept in
\* order: the k-th character of r is the k-th legal character of s.
Stripped(s, r) ==
    LET legal == { i \in 1..Len(s) : s[i] \notin IllegalChars }
        at(k) == CHOOSE i \in legal : Cardinality({ j \in legal : j <= i }) = k
    IN  /\ Len(r) = Cardinality(legal)
        /\ \A k \in 1..Len(r) : r[k] = s[at(k)]

\* the path the last call ends with when locating and renaming succeeded
LocatedStem == IF obs.renameTo # None THEN obs.renameTo ELSE obs.latest_file

\* the URLs among those of the calls that is_valid_youtube_url rejects
RejectedUrls == { u \in Urls : ~is_valid_youtube_url(u) }

\* C1: a call whose URL is_valid_youtube_url rejects returns None, calls
\* neither the metadata fetch nor the engine, and leaves the directory, the
\* output template and the stored metadata as they were.
C1_InvalidUrlAborts ==
    [][ (calls' = calls + 1 /\ req'.url \in RejectedUrls)
        => /\ outcome' = "returned"
           /\ result' = None
           /\ ~obs'.fetched
           /\ obs'.engine = "skipped"
           /\ dir' = dir
           /\ outtmpl' = outtmpl
           /\ current_video_info' = current_video_info ]_vars

C1_Witness ==
    /\ calls = MaxCalls
    /\ req.url = NotAUrl
    /\ result = None
    /\ dir # <<>>
    /\ outtmpl # TitleTmpl
    /\ current_video_info # <<>>

\* C2: in every call the template given to the engine is the sanitized custom
\* name when the call has one, and the '%(title)s' template when it has none.
C2_TemplatePerCall ==
    obs.engine # "skipped"
    => /\ Truthy(req.output_filename) => obs.tmpl = safe_filename(req.output_filename)
       /\ req.output_filename = None => obs.tmpl = TitleTmpl

\* C3: a call that returns a path wrote a file during that call and returns
\* that file; a call in which the engine wrote no file returns no path and
\* renames nothing.
C3_ReturnsOwnFile ==
    outcome = "returned"
    => /\ result # None => (obs.produced # None /\ obs.latest_file = obs.produced)
       /\ obs.engine = "nofile" => (result = None /\ obs.renameTo = None)

\* C4: the sanitized name is the custom name with exactly the characters
\* < > : " / \ | ? * removed, and the template given to the engine and the
\* rename target are that same name.
C4_Sanitized ==
    (Truthy(req.output_filename) /\ obs.engine # "skipped")
    => /\ Stripped(req.output_filename, obs.tmpl)
       /\ obs.renameTo # None => obs.renameTo = obs.tmpl

C4_Witness ==
    /\ \E i, j \in 1..Len(req.output_filename) :
          /\ req.output_filename[i] \in IllegalChars
          /\ req.output_filename[j] \notin IllegalChars
    /\ Truthy(req.output_filename)
    /\ obs.engine = "file"
    /\ obs.renameTo # None
    /\ result # None

\* C5: with a custom name, a file written by the engine and exactly one .mp3
\* in the directory after the engine ran, that file is at
\* downloads/<sanitized name>.mp3 and that path is returned; "My:Song" gives
\* downloads/MySong.mp3.
C5_RenamedToCustomName ==
    (/\ outcome = "returned"
     /\ is_valid_youtube_url(req.url)
     /\ Truthy(req.output_filename)
     /\ obs.info # <<>>
     /\ obs.engine = "file"
     /\ Cardinality(obs.downloaded_files) = 1)
    => /\ \E t \in DOMAIN dir :
             /\ Stripped(req.output_filename, t)
             /\ DOMAIN dir = {t}
             /\ result = Path(t)
       /\ req.output_filename = <<"M", "y", ":", "S", "o", "n", "g">>
          => result = <<"downloads/", "M", "y", "S", "o", "n", "g", ".mp3">>

C5_Witness ==
    /\ outcome = "returned"
    /\ req.output_filename = <<"M", "y", ":", "S", "o", "n", "g">>
    /\ obs.engine = "file"
    /\ Cardinality(obs.downloaded_files) = 1
    /\ result = Path(MySong)

\* C6: without a custom name and with exactly one .mp3 in the directory after
\* the engine ran (here: after it wrote its file), nothing is renamed and the
\* returned path is that file, whose name is the one the engine derived from
\* the title.
C6_TitleNamedUnrenamed ==
    (/\ outcome = "returned"
     /\ req.output_filename = None
     /\ obs.engine = "file"
     /\ Cardinality(obs.downloaded_files) = 1)
    => /\ obs.renameTo = None
       /\ DOMAIN dir = obs.downloaded_files
       /\ result = Path(obs.latest_file)
       /\ obs.latest_file \in {obs.info[1].title, NA}

\* C7: a failure of the tag writer does not change the result: once the
\* download, the scan and the rename succeeded, the tag writer is called and
\* the path of the located file is returned, whether or not the tags were
\* saved.
C7_TagFailureKeepsResult ==
    (/\ outcome = "returned"
     /\ obs.scanned
     /\ obs.downloaded_files # {}
     /\ ~obs.renameRaised)
    => /\ obs.tagged
       /\ result = Path(LocatedStem)

C7_Witness ==
    /\ outcome = "returned"
    /\ obs.tagged
    /\ ~obs.tagOk
    /\ obs.renameTo # None
    /\ result = Path(obs.renameTo)

\* C8: is_valid_youtube_url is true for every URL of the recognized shape
\* (a supported host, an 11-character identifier, with or without scheme and
\* www.) and false for every URL whose identifier is shorter than 11
\* characters or whose host is not a supported one.
C8_Validator ==
    valid # "unchecked"
    => /\ (/\ parts.scheme \in {<<>>, Http, Https}
           /\ parts.sub \in {<<>>, Www}
           /\ parts.host \in {Youtube, Youtu, YoutubeNocookie}
           /\ parts.tld \in {Com, Be}
           /\ Len(parts.id) = IdLen) => valid = "valid"
       /\ (\/ Len(parts.id) < IdLen
           \/ parts.sub = Mobile
           \/ parts.host \notin {Youtube, Youtu, YoutubeNocookie}
           \/ parts.tld \notin {Com, Be}) => valid = "invalid"

\* C9: download_audio never lets an exception reach its caller; it returns a
\* path or None, and None whenever the fetch, the engine, the scan or the
\* rename failed.
C9_NeverRaises ==
    /\ outcome # "raised"
    /\ (outcome = "returned"
        /\ (\/ (obs.fetched /\ obs.info = <<>>)
            \/ obs.engine = "raise"
            \/ (obs.scanned /\ obs.downloaded_files = {})
            \/ obs.renameRaised)) => result = None

\* C10: whenever the tag writer is called, the metadata it is given is the
\* metadata this call fetched, not what an earlier call stored.
C10_TagsOwnMetadata ==
    obs.tagged => (obs.info # <<>> /\ obs.tagInfo = obs.info)

C10_Witness ==
    /\ obs.tagged
    /\ obs.before # <<>>
    /\ obs.before # obs.info
    /\ obs.tagInfo = obs.info

============================================================================
